---- MODULE Spec2Model ----
(***************************************************************************)
(* Model of modu (main.go): a bubbletea program that lists the modules of  *)
(* a Go project that have an update and applies `go get -u` to the one at  *)
(* the cursor.  The state is the model struct; there is one action per     *)
(* branch of model.Update, one for model.View and one for the exit of      *)
(* main.                                                                   *)
(***************************************************************************)
EXTENDS Integers, Sequences, FiniteSets, TLC

\* ---------------------------------------------------------------- bounds
\* terminal heights a WindowSizeMsg may carry: 1..MaxTermHeight
MaxTermHeight == 5
\* number of records in one output of `go list -m -u -json all`
MaxOut == 3
\* number of frames of the spinner animation
NumFrames == 2

\* ---------------------------------------------------------------- helpers
Min(a, b) == IF a < b THEN a ELSE b

Max(a, b) == IF a > b THEN a ELSE b

\* Go's < on strings; a string is the sequence of its byte values.
RECURSIVE StrLess(_, _)
StrLess(s, t) ==
    IF t = <<>> THEN FALSE
    ELSE IF s = <<>> THEN TRUE
    ELSE IF Head(s) < Head(t) THEN TRUE
    ELSE IF Head(s) > Head(t) THEN FALSE
    ELSE StrLess(Tail(s), Tail(t))

\* ---------------------------------------------------------------- modules
\* The nil *module of the Update field.
NilUpdate == [Path |-> <<>>, Version |-> 0]

\* The records `go list` may print.  Paths: "a" = <<1>>, "ab" = <<1,2>>,
\* "b" = <<2>>, "ba" = <<2,1>>, "m" = <<3>>, "z" = <<4>>.
Universe ==
    { [Path |-> <<3>>, Version |-> 1, Update |-> NilUpdate,
       Main |-> TRUE, Indirect |-> FALSE],
      [Path |-> <<4>>, Version |-> 1, Update |-> NilUpdate,
       Main |-> FALSE, Indirect |-> FALSE],
      [Path |-> <<1>>, Version |-> 1,
       Update |-> [Path |-> <<1>>, Version |-> 2],
       Main |-> FALSE, Indirect |-> TRUE],
      [Path |-> <<1, 2>>, Version |-> 1,
       Update |-> [Path |-> <<1, 2>>, Version |-> 2],
       Main |-> FALSE, Indirect |-> FALSE],
      [Path |-> <<2>>, Version |-> 2,
       Update |-> [Path |-> <<2>>, Version |-> 3],
       Main |-> FALSE, Indirect |-> FALSE],
      [Path |-> <<2, 1>>, Version |-> 1,
       Update |-> [Path |-> <<2, 1>>, Version |-> 2],
       Main |-> FALSE, Indirect |-> TRUE] }

\* The outputs of `go list`: sequences of distinct records.
GoListOutputs ==
    UNION { { s \in [1..k -> Universe] :
                \A i, j \in 1..k : i # j => s[i].Path # s[j].Path } :
            k \in 0..MaxOut }

\* less comparing the paths only
lessByPath(a, b) == StrLess(a.Path, b.Path)

\* The comparator handed to sort.Slice.
less(a, b) ==
    IF a.Indirect /\ ~b.Indirect THEN FALSE
    ELSE IF ~a.Indirect /\ b.Indirect THEN TRUE
    ELSE StrLess(a.Path, b.Path)

RECURSIVE Insert(_, _)
Insert(m, s) ==
    IF s = <<>> THEN <<m>>
    ELSE IF less(m, Head(s)) THEN <<m>> \o s
    ELSE <<Head(s)>> \o Insert(m, Tail(s))

RECURSIVE SortSlice(_)
SortSlice(s) ==
    IF s = <<>> THEN <<>> ELSE Insert(Head(s), SortSlice(Tail(s)))

\* The decode loop of load: keeps the records with !Main && Update != nil.
RECURSIVE Decode(_)
Decode(out) ==
    IF out = <<>> THEN <<>>
    ELSE IF ~Head(out).Main /\ Head(out).Update # NilUpdate
         THEN <<Head(out)>> \o Decode(Tail(out))
         ELSE Decode(Tail(out))

load(out) == SortSlice(Decode(out))

\* Every list a successful load can return.
LoadResults == { load(out) : out \in GoListOutputs }

\* The errors a failing task returns.
Errors == {"exit status 1", "invalid character"}

NoErr == "nil"

\* ---------------------------------------------------------------- state
VARIABLES
    ready,       \* m.ready
    modules,     \* m.modules, <<>> while nil
    modulesNil,  \* m.modules == nil
    cursor,      \* m.cursor
    updating,    \* m.updating
    err,         \* m.err
    viewport,    \* m.viewport: Height, YOffset and len(lines)
    frame,       \* m.spinner's frame
    tasks,       \* the load and update commands that have not returned
    pc,          \* position of the program: "render", "wait", "done",
                 \* "panic" or "exited"
    msg,         \* the message last handed to Update
    cmd,         \* the command last returned by Update
    before,      \* m.cursor and m.updating when Update was last entered
    startErr,    \* the error p.Start returned to main
    quits,       \* the branches of Update whose tea.Quit command has been
                 \* returned: "errMsg", "keyMsg"
    exitCode     \* exit status of the process, -1 while it runs

vars == <<ready, modules, modulesNil, cursor, updating, err, viewport,
          frame, tasks, pc, msg, cmd, before, startErr, quits, exitCode>>

\* the fields of the model struct other than the spinner
mfields == <<ready, modules, modulesNil, cursor, updating, err, viewport>>

\* ---------------------------------------------------------------- viewport
\* The zero viewport.Model.
ZeroViewport == [Height |-> 0, YOffset |-> 0, lines |-> 0]

AtTop(vp) == vp.YOffset <= 0

AtBottom(vp) == vp.YOffset >= vp.lines - 1 - vp.Height

LineDown(vp, n) ==
    IF AtBottom(vp) \/ n = 0 THEN vp
    ELSE [vp EXCEPT !.YOffset = Min(vp.YOffset + n, vp.lines - 1 - vp.Height)]

LineUp(vp, n) ==
    IF AtTop(vp) \/ n = 0 THEN vp
    ELSE [vp EXCEPT !.YOffset = Max(vp.YOffset - n, 0)]

\* SetContent splits the content at "\n": one line per row and, as every
\* row ends with "\n", a last empty line.
SetContent(vp, s) == [vp EXCEPT !.lines = Len(s) + 1]

\* ---------------------------------------------------------------- model
\* model.content: one row per module.
content(ms, c, u) ==
    [i \in 1..Len(ms) |->
        [mark     |-> IF c = i - 1 THEN (IF u THEN "spinner" ELSE ">")
                      ELSE " ",
         Path     |-> ms[i].Path,
         Version  |-> ms[i].Version,
         Update   |-> ms[i].Update.Version,
         Indirect |-> ms[i].Indirect]]

\* fixCursor truncating instead of wrapping
fixCursorTruncate(c, n) ==
    IF c > n - 1 THEN n - 1
    ELSE IF c < 0 THEN 0
    ELSE c

\* fixViewport following the cursor one line at a time
fixViewportOneLine(moveCursor, c, vp) ==
    LET top    == vp.YOffset
        bottom == vp.Height + vp.YOffset - 1
    IN  IF moveCursor
        THEN [cursor   |-> IF c < top THEN top
                           ELSE IF c > bottom THEN bottom
                           ELSE c,
              viewport |-> vp]
        ELSE [cursor   |-> c,
              viewport |-> IF c < top THEN [vp EXCEPT !.YOffset = top - 1]
                           ELSE IF c > bottom
                                THEN [vp EXCEPT !.YOffset = top + 1]
                           ELSE vp]

\* model.fixCursor, for a cursor c and len(m.modules) = n.
fixCursor(c, n) ==
    IF c > n - 1 THEN 0
    ELSE IF c < 0 THEN n - 1
    ELSE c

\* fixViewport that never moves the cursor
fixViewportScrollsOnly(moveCursor, c, vp) ==
    LET top    == vp.YOffset
        bottom == vp.Height + vp.YOffset - 1
    IN  [cursor   |-> c,
         viewport |-> IF c < top THEN LineUp(vp, top - c)
                      ELSE IF c > bottom THEN LineDown(vp, c - bottom)
                      ELSE vp]

\* fixViewport putting the cursor on the first line of the window
fixViewportCursorTop(moveCursor, c, vp) ==
    LET top    == vp.YOffset
        bottom == vp.Height + vp.YOffset - 1
    IN  IF moveCursor
        THEN [cursor   |-> IF c < top THEN top
                           ELSE IF c > bottom THEN bottom
                           ELSE c,
              viewport |-> vp]
        ELSE [cursor   |-> c,
              viewport |-> IF c < top THEN LineUp(vp, top - c)
                           ELSE IF c > bottom THEN [vp EXCEPT !.YOffset = c]
                           ELSE vp]

\* model.fixViewport: the cursor and the viewport it leaves.
fixViewport(moveCursor, c, vp) ==
    LET top    == vp.YOffset
        bottom == vp.Height + vp.YOffset - 1
    IN  IF moveCursor
        THEN [cursor   |-> IF c < top THEN top
                           ELSE IF c > bottom THEN bottom
                           ELSE c,
              viewport |-> vp]
        ELSE [cursor   |-> c,
              viewport |-> IF c < top THEN LineUp(vp, top - c)
                           ELSE IF c > bottom THEN LineDown(vp, c - bottom)
                           ELSE vp]

\* m.viewport.LineUp(1); m.fixViewport(true)
scrollUp(c, vp) == fixViewport(TRUE, c, LineUp(vp, 1))

\* m.viewport.LineDown(1); m.fixViewport(true)
scrollDown(c, vp) == fixViewport(TRUE, c, LineDown(vp, 1))

\* enterGuard without the test of m.updating
enterGuardAlways(u) == TRUE

\* The guard of the enter key.
enterGuard(u) == ~u

\* navGuard without the test of m.updating
navGuardAlways(u) == TRUE

\* The guard of the navigation keys.
navGuard(u) == ~u

\* m.modules[m.cursor] does not panic.
InRange(c, ms) == 0 <= c /\ c <= Len(ms) - 1

\* The commands of Init and updateCmd.
loadCmd == [kind |-> "load", target |-> NilUpdate]

updateCmd(m) == [kind |-> "update", target |-> m.Update]

\* The commands still running once command i has returned its message.
Remove(s, i) == SubSeq(s, 1, i - 1) \o SubSeq(s, i + 1, Len(s))

TermHeights == 1..MaxTermHeight

\* ---------------------------------------------------------------- Init
Init ==
    /\ ready = FALSE
    /\ modules = <<>>
    /\ modulesNil = TRUE
    /\ cursor = 0
    /\ updating = FALSE
    /\ err = NoErr
    /\ viewport = ZeroViewport
    /\ frame = 0
    /\ tasks = <<loadCmd>>
    /\ pc = "render"
    /\ msg = "init"
    /\ cmd = "batch"
    /\ before = [cursor |-> 0, updating |-> FALSE]
    /\ startErr = NoErr
    /\ quits = {}
    /\ exitCode = -1

\* ---------------------------------------------------------------- Update
\* Update is entered with the current cursor and updating flag.
Entered == before' = [cursor |-> cursor, updating |-> updating]

\* return m, tea.Quit: Update returns the quit command, as it returns any
\* other command; the loop renders and goes on until the quit takes effect.
Quit(branch) ==
    /\ cmd' = "quit"
    /\ quits' = quits \cup {branch}
    /\ pc' = "render"

\* case errMsg: a load or update command returned an error.
ErrMsg ==
    /\ pc = "wait"
    /\ Entered
    /\ \E i \in 1..Len(tasks), e \in Errors :
          /\ tasks' = Remove(tasks, i)
          /\ err' = e
          /\ msg' = e
    /\ Quit("errMsg")
    /\ UNCHANGED <<ready, modules, modulesNil, cursor, updating, viewport,
                   frame, exitCode, startErr>>

\* modulesMsg that also brings the cursor back into the new list
ModulesMsgFixesCursor ==
    /\ pc = "wait"
    /\ Entered
    /\ \E i \in 1..Len(tasks), ms \in LoadResults :
          /\ tasks[i].kind = "load"
          /\ tasks' = Remove(tasks, i)
          /\ modules' = ms
          /\ cursor' = fixCursor(cursor, Len(ms))
    /\ modulesNil' = FALSE
    /\ msg' = "modulesMsg"
    /\ cmd' = "nil"
    /\ pc' = "render"
    /\ UNCHANGED <<ready, updating, err, viewport, frame, exitCode, startErr,
                   quits>>

\* case modulesMsg: the load command of Init returned a list.
ModulesMsg ==
    /\ pc = "wait"
    /\ Entered
    /\ \E i \in 1..Len(tasks), ms \in LoadResults :
          /\ tasks[i].kind = "load"
          /\ tasks' = Remove(tasks, i)
          /\ modules' = ms
    /\ modulesNil' = FALSE
    /\ msg' = "modulesMsg"
    /\ cmd' = "nil"
    /\ pc' = "render"
    /\ UNCHANGED <<ready, cursor, updating, err, viewport, frame, exitCode,
                   startErr, quits>>

\* updatedMsg handled like modulesMsg: m.updating is not reset
UpdatedMsgKeepsBusy ==
    /\ pc = "wait"
    /\ Entered
    /\ \E i \in 1..Len(tasks), ms \in LoadResults :
          /\ tasks[i].kind = "update"
          /\ tasks' = Remove(tasks, i)
          /\ modules' = ms
    /\ modulesNil' = FALSE
    /\ msg' = "updatedMsg"
    /\ cmd' = "nil"
    /\ pc' = "render"
    /\ UNCHANGED <<ready, cursor, updating, err, viewport, frame, exitCode,
                   startErr, quits>>

\* case updatedMsg: an update command returned the reloaded list.
UpdatedMsg ==
    /\ pc = "wait"
    /\ Entered
    /\ \E i \in 1..Len(tasks), ms \in LoadResults :
          /\ tasks[i].kind = "update"
          /\ tasks' = Remove(tasks, i)
          /\ modules' = ms
    /\ modulesNil' = FALSE
    /\ updating' = FALSE
    /\ msg' = "updatedMsg"
    /\ cmd' = "nil"
    /\ pc' = "render"
    /\ UNCHANGED <<ready, cursor, err, viewport, frame, exitCode, startErr,
                   quits>>

\* q and ctrl+c ignored while an update runs
KeyQuitWhenIdle ==
    /\ pc = "wait"
    /\ Entered
    /\ \E k \in {"ctrl+c", "q"} : msg' = k
    /\ IF updating
       THEN cmd' = "nil" /\ pc' = "render" /\ quits' = quits
       ELSE Quit("keyMsg")
    /\ UNCHANGED <<mfields, frame, tasks, exitCode, startErr>>

\* case "ctrl+c", "q"
KeyQuit ==
    /\ pc = "wait"
    /\ Entered
    /\ \E k \in {"ctrl+c", "q"} : msg' = k
    /\ Quit("keyMsg")
    /\ UNCHANGED <<mfields, frame, tasks, exitCode, startErr>>

\* case "enter"
KeyEnter ==
    /\ pc = "wait"
    /\ Entered
    /\ msg' = "enter"
    /\ IF enterGuard(updating)
       THEN /\ updating' = TRUE
            /\ IF InRange(cursor, modules)
               THEN /\ tasks' = Append(tasks, updateCmd(modules[cursor + 1]))
                    /\ cmd' = "update"
                    /\ pc' = "render"
               ELSE /\ tasks' = tasks
                    /\ cmd' = "nil"
                    /\ pc' = "panic"
       ELSE /\ UNCHANGED <<updating, tasks>>
            /\ cmd' = "nil"
            /\ pc' = "render"
    /\ UNCHANGED <<ready, modules, modulesNil, cursor, err, viewport, frame,
                   exitCode, startErr, quits>>

\* the cursor moved by d, then fixCursor and fixViewport(false)
MoveCursor(d) ==
    LET c == fixCursor(cursor + d, Len(modules))
        r == fixViewport(FALSE, c, viewport)
    IN  /\ cursor' = r.cursor
        /\ viewport' = r.viewport

\* case "down", "j"
KeyDown ==
    /\ pc = "wait"
    /\ Entered
    /\ \E k \in {"down", "j"} : msg' = k
    /\ IF navGuard(updating)
       THEN MoveCursor(1)
       ELSE UNCHANGED <<cursor, viewport>>
    /\ cmd' = "nil"
    /\ pc' = "render"
    /\ UNCHANGED <<ready, modules, modulesNil, updating, err, frame, tasks,
                   exitCode, startErr, quits>>

\* case "up", "k"
KeyUp ==
    /\ pc = "wait"
    /\ Entered
    /\ \E k \in {"up", "k"} : msg' = k
    /\ IF navGuard(updating)
       THEN MoveCursor(-1)
       ELSE UNCHANGED <<cursor, viewport>>
    /\ cmd' = "nil"
    /\ pc' = "render"
    /\ UNCHANGED <<ready, modules, modulesNil, updating, err, frame, tasks,
                   exitCode, startErr, quits>>

\* case "pgup", "u"
KeyPgUp ==
    /\ pc = "wait"
    /\ Entered
    /\ \E k \in {"pgup", "u"} : msg' = k
    /\ IF navGuard(updating)
       THEN LET r == scrollUp(cursor, viewport)
            IN  /\ cursor' = r.cursor
                /\ viewport' = r.viewport
       ELSE UNCHANGED <<cursor, viewport>>
    /\ cmd' = "nil"
    /\ pc' = "render"
    /\ UNCHANGED <<ready, modules, modulesNil, updating, err, frame, tasks,
                   exitCode, startErr, quits>>

\* case "pgdown", "d"
KeyPgDown ==
    /\ pc = "wait"
    /\ Entered
    /\ \E k \in {"pgdown", "d"} : msg' = k
    /\ IF navGuard(updating)
       THEN LET r == scrollDown(cursor, viewport)
            IN  /\ cursor' = r.cursor
                /\ viewport' = r.viewport
       ELSE UNCHANGED <<cursor, viewport>>
    /\ cmd' = "nil"
    /\ pc' = "render"
    /\ UNCHANGED <<ready, modules, modulesNil, updating, err, frame, tasks,
                   exitCode, startErr, quits>>

\* any other key: no case of the inner switch matches
KeyOther ==
    /\ pc = "wait"
    /\ Entered
    /\ msg' = "x"
    /\ cmd' = "nil"
    /\ pc' = "render"
    /\ UNCHANGED <<mfields, frame, tasks, exitCode, startErr, quits>>

\* the spinner advanced only while an update runs
TickMsgWhenBusy ==
    /\ pc = "wait"
    /\ Entered
    /\ frame' = IF updating THEN (frame + 1) % NumFrames ELSE frame
    /\ msg' = "tick"
    /\ cmd' = "tick"
    /\ pc' = "render"
    /\ UNCHANGED <<mfields, tasks, exitCode, startErr, quits>>

\* case spinner.TickMsg
TickMsg ==
    /\ pc = "wait"
    /\ Entered
    /\ frame' = (frame + 1) % NumFrames
    /\ msg' = "tick"
    /\ cmd' = "tick"
    /\ pc' = "render"
    /\ UNCHANGED <<mfields, tasks, exitCode, startErr, quits>>

\* case tea.WindowSizeMsg
WindowSizeMsg ==
    /\ pc = "wait"
    /\ Entered
    /\ \E h \in TermHeights :
          IF ~ready
          THEN /\ viewport' = [ZeroViewport EXCEPT !.Height = h - 2]
               /\ ready' = TRUE
               /\ cursor' = cursor
          ELSE LET r == fixViewport(TRUE, cursor,
                                    [viewport EXCEPT !.Height = h - 2])
               IN  /\ cursor' = r.cursor
                   /\ viewport' = r.viewport
                   /\ ready' = ready
    /\ msg' = "resize"
    /\ cmd' = "nil"
    /\ pc' = "render"
    /\ UNCHANGED <<modules, modulesNil, updating, err, frame, tasks,
                   exitCode, startErr, quits>>

\* ---------------------------------------------------------------- View
\* viewed without the deferred m.builder.Reset() of content: the builder
\* keeps the rows of the renders before
viewedNoReset(vp, rdy, nil, ms, c, u) ==
    IF rdy /\ ~nil /\ Len(ms) # 0
    THEN [vp EXCEPT !.lines = IF vp.lines = 0 THEN Len(ms) + 1
                               ELSE vp.lines + Len(ms)]
    ELSE vp

\* The viewport View leaves: the content is set when the list is shown.
viewed(vp, rdy, nil, ms, c, u) ==
    IF rdy /\ ~nil /\ Len(ms) # 0
    THEN SetContent(vp, content(ms, c, u))
    ELSE vp

\* The string View returns: the header, and as body the rows of the
\* content and the first and last line of the window over them.
viewOutput(vp, rdy, nil, ms, c, u, f) ==
    IF ~rdy \/ nil
    THEN [header |-> "Loading...", a |-> f, b |-> 0,
          rows |-> <<>>, top |-> 0, bottom |-> 0]
    ELSE IF Len(ms) = 0
    THEN [header |-> "All modules are up-to-date", a |-> 0, b |-> 0,
          rows |-> <<>>, top |-> 0, bottom |-> 0]
    ELSE [header |-> "Press enter to update", a |-> c + 1, b |-> Len(ms),
          rows |-> content(ms, c, u),
          top |-> viewed(vp, rdy, nil, ms, c, u).YOffset,
          bottom |-> Min(viewed(vp, rdy, nil, ms, c, u).YOffset
                           + viewed(vp, rdy, nil, ms, c, u).Height,
                         viewed(vp, rdy, nil, ms, c, u).lines)]

\* model.View, called once Init or Update has returned.
View ==
    /\ pc = "render"
    /\ viewport' = viewed(viewport, ready, modulesNil, modules, cursor,
                           updating)
    /\ pc' = "wait"
    /\ UNCHANGED <<ready, modules, modulesNil, cursor, updating, err, frame,
                   tasks, msg, cmd, before, exitCode, startErr, quits>>

\* ---------------------------------------------------------------- main
\* The errors p.Start itself returns.
StartErrors == {"start error"}

\* p.Start returns an error of its own, before the first render or while
\* the loop waits for a message: the loop ends with every field as it is.
StartFails ==
    /\ pc = "wait" \/ (pc = "render" /\ msg = "init")
    /\ startErr' \in StartErrors
    /\ pc' = "done"
    /\ UNCHANGED <<mfields, frame, tasks, msg, cmd, before, quits, exitCode>>

\* The quit of a tea.Quit command takes effect: the loop ends without
\* waiting for the commands that have not returned, and p.Start returns nil.
QuitMsg ==
    /\ pc = "wait"
    /\ quits # {}
    /\ pc' = "done"
    /\ UNCHANGED <<mfields, frame, tasks, msg, cmd, before, startErr, quits,
                   exitCode>>

\* main without the test of m.err
MainReturnIgnoresErr ==
    /\ pc = "done"
    /\ exitCode' = IF startErr # NoErr THEN 1 ELSE 0
    /\ pc' = "exited"
    /\ UNCHANGED <<mfields, frame, tasks, msg, cmd, before, startErr, quits>>

\* p.Start has returned: main reports its error, if any, else m.err, if
\* any.
MainReturn ==
    /\ pc = "done"
    /\ exitCode' = IF startErr # NoErr THEN 1
                   ELSE IF err # NoErr THEN 1
                   ELSE 0
    /\ pc' = "exited"
    /\ UNCHANGED <<mfields, frame, tasks, msg, cmd, before, startErr, quits>>

\* The index expression of the enter key panicked.
Panic ==
    /\ pc = "panic"
    /\ exitCode' = 2
    /\ pc' = "exited"
    /\ UNCHANGED <<mfields, frame, tasks, msg, cmd, before, startErr, quits>>

Next ==
    \/ ErrMsg
    \/ ModulesMsg
    \/ UpdatedMsg
    \/ KeyQuit
    \/ KeyEnter
    \/ KeyDown
    \/ KeyUp
    \/ KeyPgUp
    \/ KeyPgDown
    \/ KeyOther
    \/ TickMsg
    \/ WindowSizeMsg
    \/ View
    \/ StartFails
    \/ QuitMsg
    \/ MainReturn
    \/ Panic

Spec == Init /\ [][Next]_vars

\* A command that has returned has its message received by the loop.
Delivered == ErrMsg \/ ModulesMsg \/ UpdatedMsg

\* The loop renders after every Update, and every command returns: its
\* goroutine sends the message, which the loop receives; so does the quit
\* command. main and a panic run to the end of the process.
FairSpec ==
    /\ Spec
    /\ WF_vars(View)
    /\ SF_vars(Delivered)
    /\ SF_vars(QuitMsg)
    /\ WF_vars(MainReturn)
    /\ WF_vars(Panic)

TypeOK ==
    /\ ready \in BOOLEAN
    /\ modules \in LoadResults
    /\ modulesNil \in BOOLEAN
    /\ cursor \in Int
    /\ updating \in BOOLEAN
    /\ err \in Errors \cup {NoErr}
    /\ viewport.Height \in Int /\ viewport.YOffset \in Nat
    /\ viewport.lines \in Nat
    /\ frame \in 0..(NumFrames - 1)
    /\ pc \in {"render", "wait", "done", "panic", "exited"}
    /\ startErr \in StartErrors \cup {NoErr}
    /\ quits \subseteq {"errMsg", "keyMsg"}
    /\ exitCode \in {-1, 0, 1, 2}

\* ---------------------------------------------------------------- claims
NonEmpty == ~modulesNil /\ Len(modules) > 0

Running == pc \in {"render", "wait"}

UpdateOutstanding == \E i \in 1..Len(tasks) : tasks[i].kind = "update"

NavKeys == {"down", "j", "up", "k", "pgup", "u", "pgdown", "d"}

\* C1: whenever the module list is non-empty, 0 <= cursor <= len(list)-1.
C1_CursorInRange == NonEmpty => InRange(cursor, modules)

\* C2: enter on an empty module list with busy false is a no-op: no state
\* changes, no task is emitted and the loop neither crashes nor terminates.
C2_EnterOnEmptyIsNoop ==
    [][(KeyEnter /\ Len(modules) = 0 /\ ~updating)
         => (UNCHANGED <<mfields, tasks>> /\ cmd' = "nil" /\ pc' = "render")]_vars

\* C3: enter while busy emits no task and leaves the module list, the
\* cursor, the busy flag, the error and the viewport unchanged.
C3_EnterWhileBusy ==
    [][(KeyEnter /\ updating)
         => (UNCHANGED <<mfields, tasks>> /\ cmd' = "nil" /\ pc' = "render")]_vars

\* C3 witness: enter was handled while busy.
C3_Witness ==
    msg = "enter" /\ before.updating /\ updating /\ UpdateOutstanding

\* C4: at most one load or update task is outstanding.
C4_OneTask == Len(tasks) <= 1

\* C4 witness: enter was pressed while the update task was outstanding.
C4_Witness ==
    msg = "enter" /\ before.updating /\ Len(tasks) = 1 /\ UpdateOutstanding

\* C5: in every state of a process that has not crashed, busy is true if
\* and only if an update task is outstanding; busy is not left true once
\* the failure event of the update has been handled.
C5_BusyIffOutstanding ==
    (pc # "panic" /\ exitCode # 2) => (updating <=> UpdateOutstanding)

\* C5 amended: while the loop runs with the terminal error unset, busy is
\* true if and only if an update task is outstanding; the failure event of
\* an update leaves busy true.
C5_BusyWhileRunning ==
    /\ []((Running /\ err = NoErr) => (updating <=> UpdateOutstanding))
    /\ [][(ErrMsg /\ updating) => updating']_vars

\* C5 witness: enter dispatched an update; the loop runs with busy true
\* and the update task outstanding.
C5_Witness ==
    Running /\ updating /\ UpdateOutstanding /\ msg = "enter"
    /\ ~before.updating /\ NonEmpty

InWindow ==
    /\ viewport.YOffset <= cursor
    /\ cursor <= viewport.YOffset + viewport.Height - 1

\* C6: while busy, down/j, up/k, pgup/u and pgdown/d leave the cursor and
\* the viewport offset unchanged and emit no task.
C6_NavRejectedWhileBusy ==
    [][((KeyDown \/ KeyUp \/ KeyPgUp \/ KeyPgDown) /\ updating)
         => (UNCHANGED <<cursor, viewport, tasks>> /\ cmd' = "nil")]_vars

\* C6 witness: a navigation key was handled while busy, on a list of two
\* or more modules.
C6_Witness ==
    msg \in NavKeys /\ before.updating /\ NonEmpty /\ Len(modules) >= 2

\* C7: with busy false and the cursor c a valid index of a list of length
\* n, down sets the cursor to (c+1) mod n and up sets it to (c-1) mod n;
\* down then up, and up then down, restore c.
C7_CyclicMove ==
    /\ [][(KeyDown /\ ~updating /\ InRange(cursor, modules))
            => cursor' = (cursor + 1) % Len(modules)]_vars
    /\ [][(KeyUp /\ ~updating /\ InRange(cursor, modules))
            => cursor' = (cursor - 1) % Len(modules)]_vars
    /\ [](\A c \in 0..(Len(modules) - 1) :
            /\ fixCursor(fixCursor(c + 1, Len(modules)) - 1, Len(modules)) = c
            /\ fixCursor(fixCursor(c - 1, Len(modules)) + 1, Len(modules)) = c)

\* C7 witness: down moved the cursor from the last index of a list of two
\* or more modules to 0.
C7_Witness ==
    /\ msg \in {"down", "j"} /\ ~before.updating /\ Len(modules) >= 2
    /\ before.cursor = Len(modules) - 1 /\ cursor = 0

\* C8: in a ready state with a loaded non-empty list, a down or up key
\* handled with busy false leaves topOffset <= cursor <= topOffset+height-1,
\* for every viewport height.
C8_CursorVisible ==
    [][((KeyDown \/ KeyUp) /\ ~updating /\ ready /\ NonEmpty)
         => InWindow']_vars

\* C8 amended: the same, for every viewport height of at least 1.
C8_CursorVisibleInWindow ==
    [][((KeyDown \/ KeyUp) /\ ~updating /\ ready /\ NonEmpty
          /\ viewport.Height >= 1)
         => InWindow']_vars

\* C8 witness: a down or up key scrolled the window to follow the cursor.
C8_Witness ==
    /\ msg \in {"down", "j", "up", "k"} /\ ~before.updating /\ ready
    /\ NonEmpty /\ viewport.Height >= 1 /\ viewport.YOffset > 0
    /\ cursor = viewport.YOffset + viewport.Height - 1
    /\ before.cursor # cursor

\* C9: a failing load or update task sets the terminal error to its error
\* and changes no other field; once the error event has been handled no
\* event is dispatched and no render is requested, only the loop ends and
\* the process exits, with a non-zero status.
C9_ErrorTerminates ==
    /\ [][ErrMsg
            => (/\ msg' \in Errors /\ err' = msg'
                /\ UNCHANGED <<ready, modules, modulesNil, cursor, updating,
                               viewport, frame>>)]_vars
    /\ [][(err # NoErr)
            => (/\ QuitMsg \/ MainReturn
                /\ UNCHANGED <<mfields, frame, tasks, msg, cmd>>)]_vars
    /\ []((pc = "exited" /\ err # NoErr) => exitCode # 0)

\* C9 amended: a failing load or update task sets the terminal error to
\* its error, changes no other field and returns the quit command; the loop
\* renders and goes on handling events until the quit takes effect, which
\* it can whenever the loop waits; meanwhile the error stays as set, the
\* module list stays, busy is not cleared and no task is dispatched; the
\* process exits with status 1 through main, or with status 2 when the
\* enter key panics first.
C9_ErrorQuits ==
    /\ [][ErrMsg
            => (/\ msg' \in Errors /\ err' = msg'
                /\ cmd' = "quit" /\ "errMsg" \in quits' /\ pc' = "render"
                /\ UNCHANGED <<ready, modules, modulesNil, cursor, updating,
                               viewport, frame>>)]_vars
    /\ [][(err # NoErr)
            => (/\ err' = err /\ "errMsg" \in quits'
                /\ UNCHANGED <<modules, modulesNil, tasks>>
                /\ updating => updating')]_vars
    /\ []((err # NoErr /\ pc = "wait") => ENABLED QuitMsg)
    /\ [][(MainReturn /\ err # NoErr) => exitCode' = 1]_vars
    /\ []((pc = "exited" /\ err # NoErr) => exitCode \in {1, 2})

\* C9 witness: the update task failed, a tick was handled and rendered
\* before the quit took effect, and the process exited with status 1.
C9_Witness ==
    /\ pc = "exited" /\ err \in Errors /\ exitCode = 1
    /\ msg = "tick" /\ updating /\ tasks = <<>> /\ quits = {"errMsg"}
    /\ startErr = NoErr

\* C10: in every state of the running loop, busy or not, q or ctrl+c is
\* handled, changes no field and emits no task; once it has been pressed
\* with the error unset, and unless p.Start returns an error of its own,
\* the error stays unset and the process does not exit with a non-zero
\* status: the outstanding task cannot turn the exit into an error exit.
C10_QuitIsNormal ==
    /\ [](pc = "wait" => ENABLED KeyQuit)
    /\ [][KeyQuit
            => (cmd' = "quit" /\ UNCHANGED <<mfields, frame, tasks>>)]_vars
    /\ [][("keyMsg" \in quits /\ err = NoErr /\ startErr = NoErr
             /\ pc # "panic")
            => (err' = NoErr /\ exitCode' \in {-1, 0})]_vars

\* C10 amended: in every state of the running loop, busy or not, q or
\* ctrl+c is handled, changes no field, emits no task and returns the quit
\* command; the quit can take effect whenever the loop waits, whatever task
\* is outstanding, and changes no field; afterwards only the failure event
\* of the outstanding task sets the error, and a process that exits through
\* main exits with status 0 if the error is unset and p.Start returned no
\* error of its own, and with status 1 if not.
C10_QuitKeyReturnsQuit ==
    /\ [](pc = "wait" => ENABLED KeyQuit)
    /\ [][KeyQuit
            => (/\ cmd' = "quit" /\ "keyMsg" \in quits' /\ pc' = "render"
                /\ UNCHANGED <<mfields, frame, tasks>>)]_vars
    /\ []((quits # {} /\ pc = "wait") => ENABLED QuitMsg)
    /\ [][QuitMsg
            => (pc' = "done" /\ UNCHANGED <<mfields, frame, tasks>>)]_vars
    /\ [][("keyMsg" \in quits /\ err = NoErr /\ err' # NoErr)
            => (ErrMsg /\ tasks # <<>>)]_vars
    /\ []((pc = "exited" /\ "keyMsg" \in quits /\ exitCode # 2)
            => (exitCode = IF err = NoErr /\ startErr = NoErr THEN 0 ELSE 1))

\* C10 witness: q was pressed while the update task was outstanding and
\* the process exited with status 0, the task still outstanding.
C10_Witness ==
    /\ "keyMsg" \in quits /\ pc = "exited" /\ exitCode = 0
    /\ updating /\ UpdateOutstanding /\ err = NoErr /\ startErr = NoErr

\* A delivery removes one task and is either a failure, which sets the
\* error, or a success; only a delivery or the enter key changes the tasks.
OneEventPerTask ==
    /\ [][Delivered
            => (/\ Len(tasks') = Len(tasks) - 1
                /\ (msg' \in Errors) # (msg' \in {"modulesMsg", "updatedMsg"})
                /\ (msg' \in Errors) = (err' # NoErr))]_vars
    /\ [][(tasks' # tasks) => (Delivered \/ KeyEnter)]_vars

\* C11: a dispatched load or update task delivers exactly one event, a
\* success or a failure; under fair task completion, without a quit key
\* and unless p.Start returns an error of its own, every state with busy
\* true is followed by a state with busy false or by the end of the loop
\* with the error set.
C11_OneEventPerTask ==
    /\ OneEventPerTask
    /\ (updating
          ~> (\/ ~updating
              \/ err # NoErr /\ pc \in {"done", "exited"}
              \/ "keyMsg" \in quits
              \/ startErr # NoErr))

\* C12: modulesMsg replaces the module list with a loaded list and changes
\* nothing else; updatedMsg clears busy, replaces the module list and
\* changes nothing else; neither emits a task.
C12_ResultFrame ==
    /\ [][ModulesMsg
            => (/\ modules' \in LoadResults /\ ~modulesNil'
                /\ UNCHANGED <<ready, cursor, updating, err, viewport>>
                /\ cmd' = "nil" /\ Len(tasks') = Len(tasks) - 1)]_vars
    /\ [][UpdatedMsg
            => (/\ modules' \in LoadResults /\ ~modulesNil' /\ ~updating'
                /\ UNCHANGED <<ready, cursor, err, viewport>>
                /\ cmd' = "nil" /\ Len(tasks') = Len(tasks) - 1)]_vars

\* C12 witness: the load result arrived after the cursor had been moved to
\* -1, and left it there.
C12_Witness ==
    /\ msg = "modulesMsg" /\ NonEmpty /\ before.cursor = -1 /\ cursor = -1

\* The cursor brought to the nearest edge of the window of vp.
NearestEdge(c, vp) ==
    IF c < vp.YOffset THEN vp.YOffset
    ELSE IF c > vp.YOffset + vp.Height - 1 THEN vp.YOffset + vp.Height - 1
    ELSE c

\* pgup and pgdown move topOffset by one line unless the clamp prevents
\* it, then bring the cursor to the nearest edge of the new window.
ScrollByOne ==
    /\ [][(KeyPgDown /\ ~updating)
            => (/\ \/ viewport'.YOffset = viewport.YOffset + 1
                   \/ /\ viewport.YOffset >= viewport.lines - 1 - viewport.Height
                      /\ viewport'.YOffset = viewport.YOffset
                /\ viewport'.Height = viewport.Height
                /\ cursor' = NearestEdge(cursor, viewport'))]_vars
    /\ [][(KeyPgUp /\ ~updating)
            => (/\ \/ viewport'.YOffset = viewport.YOffset - 1
                   \/ /\ viewport.YOffset = 0
                      /\ viewport'.YOffset = viewport.YOffset
                /\ viewport'.Height = viewport.Height
                /\ cursor' = NearestEdge(cursor, viewport'))]_vars

\* Scenario E: height 3, 10 items, cursor 0, pgdown three times.
ScenarioE ==
    LET s0 == [cursor |-> 0,
               viewport |-> [Height |-> 3, YOffset |-> 0, lines |-> 11]]
        s1 == scrollDown(s0.cursor, s0.viewport)
        s2 == scrollDown(s1.cursor, s1.viewport)
        s3 == scrollDown(s2.cursor, s2.viewport)
    IN  s3.viewport.YOffset = 3 /\ s3.cursor = 3

\* C13: with busy false, pgup and pgdown move topOffset by one line unless
\* the clamp prevents it and bring the cursor to the nearest edge of the
\* new window; afterwards, in a ready state, topOffset <= cursor <=
\* topOffset+height-1, for every viewport height; Scenario E ends with
\* topOffset 3 and cursor 3.
C13_ScrollThenClamp ==
    /\ ScrollByOne
    /\ [][((KeyPgDown \/ KeyPgUp) /\ ~updating /\ ready) => InWindow']_vars
    /\ []ScenarioE

\* C13 amended: the same, the cursor being inside the window afterwards
\* when the viewport height is at least 1.
C13_ScrollThenClampInWindow ==
    /\ ScrollByOne
    /\ [][((KeyPgDown \/ KeyPgUp) /\ ~updating /\ viewport.Height >= 1)
            => InWindow']_vars
    /\ []ScenarioE

\* C13 witness: pgdown moved the window one line down and the cursor,
\* left above it, to its top line.
C13_Witness ==
    /\ msg \in {"pgdown", "d"} /\ ~before.updating /\ viewport.Height >= 1
    /\ viewport.YOffset >= 1 /\ before.cursor = viewport.YOffset - 1
    /\ cursor = viewport.YOffset

\* The largest offset that leaves the window inside the content: the
\* content has one line per row, len(lines) - 1.
MaxOffset == Max(0, (viewport.lines - 1) - viewport.Height)

\* C14: in every reachable state 0 <= topOffset <= max(0, contentLines -
\* height).
C14_OffsetInContent ==
    0 <= viewport.YOffset /\ viewport.YOffset <= MaxOffset

\* C14 amended: topOffset is never negative; only a navigation key handled
\* with busy false changes it, and a step that raises it leaves it at most
\* max(0, contentLines - height); a resize or a reload leaves topOffset as
\* it is.
C14_ScrollStaysInContent ==
    /\ [](viewport.YOffset >= 0)
    /\ [][(viewport'.YOffset > viewport.YOffset)
            => (/\ KeyDown \/ KeyUp \/ KeyPgDown
                /\ ~updating
                /\ viewport'.YOffset <= MaxOffset')]_vars
    /\ [][(viewport'.YOffset < viewport.YOffset)
            => ((KeyDown \/ KeyUp \/ KeyPgUp) /\ ~updating)]_vars
    /\ [][(WindowSizeMsg /\ ready) \/ ModulesMsg \/ UpdatedMsg
            => viewport'.YOffset = viewport.YOffset]_vars

\* C14 witness: a cursor move scrolled the window down to the largest
\* offset.
C14_Witness ==
    /\ msg \in {"down", "j", "up", "k"} /\ ~before.updating /\ NonEmpty
    /\ viewport.Height >= 1 /\ viewport.YOffset = MaxOffset
    /\ viewport.YOffset >= 1 /\ cursor = Len(modules) - 1

\* C15: the first resize sets the viewport height to height - 2 and marks
\* the model ready without touching the cursor; a later resize sets the
\* viewport height and leaves the cursor inside the new window and a valid
\* index of the list; a resize emits no task, busy or not.
C15_Resize ==
    /\ [][(WindowSizeMsg /\ ~ready)
            => (/\ ready' /\ viewport'.Height + 2 \in TermHeights
                /\ cursor' = cursor)]_vars
    /\ [][(WindowSizeMsg /\ ready)
            => (/\ viewport'.Height + 2 \in TermHeights
                /\ InWindow'
                /\ (NonEmpty /\ InRange(cursor, modules)
                      => InRange(cursor', modules)))]_vars
    /\ [][WindowSizeMsg
            => (cmd' = "nil" /\ UNCHANGED <<tasks, updating, modules, err>>)]_vars

\* C16: on a non-empty list of length n, for every cursor value that
\* reaches fixCursor (the cursor moved by +1 or -1), the result equals the
\* input modulo n and lies in [0, n-1].
C16_ModularWrap ==
    /\ [][(KeyDown /\ ~updating /\ Len(modules) > 0)
            => (/\ cursor' = (cursor + 1) % Len(modules)
                /\ InRange(cursor', modules))]_vars
    /\ [][(KeyUp /\ ~updating /\ Len(modules) > 0)
            => (/\ cursor' = (cursor - 1) % Len(modules)
                /\ InRange(cursor', modules))]_vars

\* C18: a spinner tick is accepted in every state of the loop, busy or
\* not; it advances the spinner frame, leaves the module list, the cursor,
\* the busy flag, the error and the viewport unchanged, and emits no load
\* or update task.
C18_TickFrame ==
    /\ [](pc = "wait" => ENABLED TickMsg)
    /\ [][TickMsg
            => (/\ frame' = (frame + 1) % NumFrames
                /\ cmd' = "tick" /\ pc' = "render"
                /\ UNCHANGED <<mfields, tasks>>)]_vars

\* C18 witness: a tick was handled while the update task was outstanding.
C18_Witness ==
    /\ msg = "tick" /\ updating /\ before.updating /\ frame = 1
    /\ NonEmpty /\ UpdateOutstanding

\* C17: View leaves the module list, the cursor, the busy flag, the error
\* and the viewport (offset, height and content lines) unchanged.
C17_ViewHasNoEffect == [][View => (UNCHANGED mfields)]_vars

\* C17 amended: View leaves the module list, the cursor, the busy flag,
\* the error and the offset and height of the viewport unchanged, and sets
\* the content lines of the viewport to those of the list when the list is
\* shown; a second View changes nothing and returns the same output.
C17_ViewIdempotent ==
    [][View
        => (/\ UNCHANGED <<ready, modules, modulesNil, cursor, updating, err>>
            /\ viewport'.YOffset = viewport.YOffset
            /\ viewport'.Height = viewport.Height
            /\ (ready /\ NonEmpty => viewport'.lines = Len(modules) + 1)
            /\ viewed(viewport', ready, modulesNil, modules, cursor, updating)
                 = viewport'
            /\ viewOutput(viewport', ready, modulesNil, modules, cursor,
                          updating, frame)
                 = viewOutput(viewport, ready, modulesNil, modules, cursor,
                              updating, frame))]_vars

\* C17 witness: the View after the load result set the content lines of a
\* ready viewport, which had none.
C17_Witness ==
    /\ pc = "wait" /\ msg = "modulesMsg" /\ ready /\ NonEmpty
    /\ viewport.lines = Len(modules) + 1

\* A record the list is to contain: not the main module, with an update.
Wanted(r) == ~r.Main /\ r.Update # NilUpdate

\* Every direct module precedes every indirect one, and within each group
\* the paths are non-decreasing.
Ordered(ms) ==
    \A i, j \in 1..Len(ms) :
        i < j => /\ (ms[i].Indirect => ms[j].Indirect)
                 /\ (ms[i].Indirect = ms[j].Indirect
                       => ~StrLess(ms[j].Path, ms[i].Path))

\* load returns exactly the wanted records of its input, ordered.
LoadExact ==
    \A out \in GoListOutputs :
        /\ { load(out)[i] : i \in 1..Len(load(out)) }
             = { r \in { out[i] : i \in 1..Len(out) } : Wanted(r) }
        /\ Len(load(out))
             = Cardinality({ i \in 1..Len(out) : Wanted(out[i]) })
        /\ Ordered(load(out))

ScenarioMod(path, indirect) ==
    [Path |-> path, Version |-> 1,
     Update |-> [Path |-> path, Version |-> 2],
     Main |-> FALSE, Indirect |-> indirect]

\* Scenario B: 5 direct and 3 indirect modules, unsorted.
ScenarioB ==
    load(<<ScenarioMod(<<5>>, FALSE), ScenarioMod(<<3, 1>>, TRUE),
           ScenarioMod(<<3>>, FALSE), ScenarioMod(<<1>>, FALSE),
           ScenarioMod(<<1, 1>>, TRUE), ScenarioMod(<<4>>, FALSE),
           ScenarioMod(<<2, 1>>, TRUE), ScenarioMod(<<2>>, FALSE)>>)
      = <<ScenarioMod(<<1>>, FALSE), ScenarioMod(<<2>>, FALSE),
          ScenarioMod(<<3>>, FALSE), ScenarioMod(<<4>>, FALSE),
          ScenarioMod(<<5>>, FALSE), ScenarioMod(<<1, 1>>, TRUE),
          ScenarioMod(<<2, 1>>, TRUE), ScenarioMod(<<3, 1>>, TRUE)>>

\* C19: every list handed to the controller, on load and on reload, holds
\* exactly the input records with Main false and an Update, the direct
\* modules before the indirect ones and each group in non-decreasing order
\* of path; Scenario B comes out as the 5 direct modules in order, then
\* the 3 indirect ones in order.
C19_LoadFiltersAndSorts ==
    /\ LoadExact
    /\ ScenarioB
    /\ Ordered(modules)
    /\ \A i \in 1..Len(modules) : Wanted(modules[i])

\* C19 witness: a reload handed over a list of direct and indirect modules.
C19_Witness ==
    /\ msg = "updatedMsg" /\ Len(modules) = 3
    /\ ~modules[1].Indirect /\ modules[3].Indirect

\* C20: while busy with the update outstanding, the cursor is the index of
\* the module whose update was dispatched.
C20_CursorOnUpdatedModule ==
    (Running /\ updating /\ UpdateOutstanding)
      => /\ InRange(cursor, modules)
         /\ \E i \in 1..Len(tasks) :
               /\ tasks[i].kind = "update"
               /\ tasks[i].target = modules[cursor + 1].Update

====
